---- MODULE Spec2Model ----
(***************************************************************************)
(* A model of diffusers_helper/load_lora.py: the four operations that      *)
(* manage LoRA adapters on a transformer (load_lora, unload_all_loras,     *)
(* apply_lora_scaling, set_adapters) and the parts of the transformer they *)
(* read and write (peft_config, active_adapter, and every module's lora_A, *)
(* lora_B and scaling attributes).                                         *)
(*                                                                         *)
(* Strings that the code takes apart (a weight file name, an adapter name) *)
(* are sequences of one-character strings.  Numbers (strengths, weights)   *)
(* are integers.                                                           *)
(***************************************************************************)
EXTENDS Integers, Sequences, FiniteSets, TLC

VARIABLES
    has_peft_config,  \* hasattr(transformer, 'peft_config')
    peft_config,      \* adapter name -> the weight file it was loaded from
    active_adapter,   \* transformer.active_adapter, or NoAttr
    lora_A,           \* per module: the lora_A attribute
    lora_B,           \* per module: the lora_B attribute
    scaling,          \* per module: the scaling attribute
    call              \* the last operation called and what it handed on

vars == <<has_peft_config, peft_config, active_adapter, lora_A, lora_B, scaling, call>>

----------------------------------------------------------------------------
(* Bounds *)

\* number of modules of the transformer
NumModules == 5

\* longest weight file name drawn from Alphabet
MaxNameLen == 4

\* longest list of adapter names (and of weights) given to set_adapters
MaxAdapters == 2

----------------------------------------------------------------------------
(* Strings.  A weight file name is a file name: it holds no path separator. *)

Alphabet == {"a", "s", "."}

\* 'my.lora.safetensors'
ExampleName == <<"m","y",".","l","o","r","a",".","s","a","f","e","t","e","n","s","o","r","s">>

\* 'my_DOT_lora'
ExampleAdapter == <<"m","y","_","D","O","T","_","l","o","r","a">>

RECURSIVE SeqsUpTo(_)
SeqsUpTo(n) ==
    IF n = 0 THEN {<<>>}
    ELSE LET shorter == SeqsUpTo(n - 1)
         IN  shorter \cup {Append(s, c) : s \in {t \in shorter : Len(t) = n - 1}, c \in Alphabet}

\* the weight file names of the naming specification
Names == SeqsUpTo(MaxNameLen) \cup {ExampleName}

\* str.rfind('.'), 1-based, 0 when there is none
RFindDot(s) ==
    LET dots == {i \in 1..Len(s) : s[i] = "."}
    IN  IF dots = {} THEN 0 ELSE CHOOSE i \in dots : \A j \in dots : j <= i

\* PurePath(weight_name).name for a name without separators: '' and '.' are
\* the empty path
PathName(w) == IF w = <<>> \/ w = <<".">> THEN <<>> ELSE w

\* PurePath.suffix: the last dot and what follows it, unless that dot is the
\* first or the last character of the name
PathSuffix(name) ==
    LET p == RFindDot(name)
    IN  IF 1 < p /\ p < Len(name) THEN SubSeq(name, p, Len(name)) ELSE <<>>

\* PurePath.with_suffix('') raises ValueError on an empty name
HasEmptyName(w) == PathName(w) = <<>>

\* str(PurePath(weight_name).with_suffix(''))
WithSuffixRemoved(w) ==
    LET name == PathName(w)
    IN  SubSeq(name, 1, Len(name) - Len(PathSuffix(name)))

\* str.replace('.', '_DOT_')
RECURSIVE ReplaceDots(_)
ReplaceDots(s) ==
    IF s = <<>> THEN <<>>
    ELSE IF Head(s) = "."
         THEN <<"_", "D", "O", "T", "_">> \o ReplaceDots(Tail(s))
         ELSE <<Head(s)>> \o ReplaceDots(Tail(s))

\* a faulty variant: the dots are left in the name
adapter_name_dotted(w) == WithSuffixRemoved(w)

\* line 39: the adapter name of a weight file
adapter_name(w) == ReplaceDots(WithSuffixRemoved(w))

----------------------------------------------------------------------------
(* The transformer *)

Modules == 1..NumModules

\* What a module of the transformer carries, by position:
\*   "legacy"  scaling is a single plain number
\*   "peft"    lora_A and lora_B are per-adapter containers that are not dict
\*             instances, scaling is a dict
\*   "dict"    lora_A, lora_B and scaling are dicts
\*   "plain"   none of the three attributes
\*   "tensor"  scaling is a single tensor on a device
ModuleKind(m) ==
    CASE (m - 1) % 5 = 0 -> "legacy"
      [] (m - 1) % 5 = 1 -> "peft"
      [] (m - 1) % 5 = 2 -> "dict"
      [] (m - 1) % 5 = 3 -> "plain"
      [] OTHER           -> "tensor"

\* the modules that take adapters
LoraModules == {m \in Modules : ModuleKind(m) \in {"peft", "dict"}}

EmptyMap == [x \in {} |-> x]

MapPut(f, k, v) == [x \in DOMAIN f \cup {k} |-> IF x = k THEN v ELSE f[x]]

MapWithout(f, ks) == [x \in DOMAIN f \ ks |-> f[x]]

\* a plain number
Float(n) == [rep |-> "float", v |-> n]

\* a tensor on a device
Tensor(n, device) == [rep |-> device, v |-> n]

IsTensor(x) == x.rep # "float"

\* attribute values: t is "none" (no such attribute), "dict" (a dict),
\* "other" (a per-adapter container that is not a dict) or "value" (a number
\* or a tensor)
NoAttr == [t |-> "none", map |-> EmptyMap, val |-> Float(0)]

Container(t, m) == [t |-> t, map |-> m, val |-> Float(0)]

Scalar(x) == [t |-> "value", map |-> EmptyMap, val |-> x]

\* hasattr(module, attr)
HasAttr(a) == a.t # "none"

\* isinstance(attr, dict)
IsDict(a) == a.t = "dict"

\* the scale a freshly registered adapter gets (lora_alpha / r, taken as 1)
InitialScale == 1

\* lora_A and lora_B of a module before any adapter is loaded
InitLoraAttr(m) ==
    CASE ModuleKind(m) = "peft" -> Container("other", EmptyMap)
      [] ModuleKind(m) = "dict" -> Container("dict", EmptyMap)
      [] OTHER                  -> NoAttr

\* scaling of a module before any adapter is loaded
InitScaling(m) ==
    CASE ModuleKind(m) \in {"peft", "dict"} -> Container("dict", EmptyMap)
      [] ModuleKind(m) = "legacy"           -> Scalar(Float(InitialScale))
      [] ModuleKind(m) = "tensor"           -> Scalar(Tensor(InitialScale, "cuda"))
      [] OTHER                              -> NoAttr

\* transformer.active_adapter: no such attribute, the value the transformer
\* was built with, or None
NoActiveAttr == [attr |-> FALSE, v |-> "-"]

ActiveDefault == [attr |-> TRUE, v |-> "default"]

ActiveNone == [attr |-> TRUE, v |-> "None"]

\* The record of the last call:
\*   op, err     the operation and the exception it raised ("none": it returned)
\*   name        the adapter name load_lora derived or apply_lora_scaling was given
\*   deleted     how many adapter names were handed to delete_adapters
\*   written     the modules whose scaling apply_lora_scaling assigned
\*   expanded    whether the scale expansion was called, and with which weights
\*   activated   whether set_weights_and_activate_adapters was called, and with what
\*   after_load  unload_all_loras: the call before was a load_lora that returned
\*   given       set_adapters: its arguments
NoCall ==
    [op |-> "none", err |-> "none", name |-> <<>>, deleted |-> 0, written |-> {},
     expanded |-> [called |-> FALSE, weights |-> <<>>],
     activated |-> [called |-> FALSE, names |-> <<>>, weights |-> <<>>],
     after_load |-> FALSE,
     given |-> [names |-> [str |-> FALSE, v |-> <<>>], weights |-> [list |-> FALSE, v |-> <<>>]]]

\* a transformer no adapter was ever loaded into; it may or may not have an
\* active_adapter attribute
Init ==
    /\ has_peft_config = FALSE
    /\ peft_config = EmptyMap
    /\ active_adapter \in {NoActiveAttr, ActiveDefault}
    /\ lora_A = [m \in Modules |-> InitLoraAttr(m)]
    /\ lora_B = [m \in Modules |-> InitLoraAttr(m)]
    /\ scaling = [m \in Modules |-> InitScaling(m)]
    /\ call = NoCall

----------------------------------------------------------------------------
(* The transformer's own adapter interface *)

\* delete_adapters(names): the names leave peft_config; their entries leave
\* the per-adapter containers of every module, except in the modules of
\* `keep`, where the deregistration leaves them behind
DeleteFrom(attr, names, keep) ==
    [m \in Modules |->
        IF attr[m].t \in {"dict", "other"} /\ m \notin keep
        THEN [attr[m] EXCEPT !.map = MapWithout(@, names)]
        ELSE attr[m]]

\* load_lora_adapter(state_dict, adapter_name): the modules of `targets` get
\* the adapter's weights (v) or its scale (v)
InjectInto(attr, name, v, targets) ==
    [m \in Modules |->
        IF m \in targets /\ attr[m].t \in {"dict", "other"}
        THEN [attr[m] EXCEPT !.map = MapPut(@, name, v)]
        ELSE attr[m]]

Failed(op, err, name) == [NoCall EXCEPT !.op = op, !.err = err, !.name = name]

----------------------------------------------------------------------------
(* load_lora *)

\* the weight files the main specification loads: 'a.s' and 's.a'
FileNames == {<<"a", ".", "s">>, <<"s", ".", "a">>}

\* a faulty variant: the existing adapter is never looked for
AlreadyExistsNever(name) == FALSE

\* line 48: hasattr(transformer, 'peft_config') and adapter_name in
\* transformer.peft_config
AlreadyExists(name) == has_peft_config /\ name \in DOMAIN peft_config

\* load_lora(transformer, lora_path, w).
\*   outcome  what the calls handed on do: "FetchError" (_fetch_state_dict or
\*            the conversion raises), "LoadError" (load_lora_adapter raises)
\*            or "none"
\*   keep     the modules where delete_adapters leaves entries behind
\*   targets  the modules the state dict has weights for
load_lora(w, outcome, keep, targets) ==
    IF outcome = "FetchError"
    THEN /\ call' = Failed("load_lora", "FetchError", <<>>)
         /\ UNCHANGED <<has_peft_config, peft_config, active_adapter, lora_A, lora_B, scaling>>
    ELSE IF HasEmptyName(w)
    THEN /\ call' = Failed("load_lora", "ValueError", <<>>)
         /\ UNCHANGED <<has_peft_config, peft_config, active_adapter, lora_A, lora_B, scaling>>
    ELSE
      LET name    == adapter_name(w)
          exists  == AlreadyExists(name)
          \* lines 48-51
          config1 == IF exists THEN MapWithout(peft_config, {name}) ELSE peft_config
          A1      == IF exists THEN DeleteFrom(lora_A, {name}, keep) ELSE lora_A
          B1      == IF exists THEN DeleteFrom(lora_B, {name}, keep) ELSE lora_B
          S1      == IF exists THEN DeleteFrom(scaling, {name}, keep) ELSE scaling
          \* line 54: load_lora_adapter refuses a name that is in use
          err     == IF name \in DOMAIN config1 THEN "AdapterInUse" ELSE outcome
      IN  /\ active_adapter' = active_adapter
          /\ IF err = "none"
             THEN /\ has_peft_config' = TRUE
                  /\ peft_config' = MapPut(config1, name, w)
                  /\ lora_A' = InjectInto(A1, name, "weights", targets)
                  /\ lora_B' = InjectInto(B1, name, "weights", targets)
                  /\ scaling' = InjectInto(S1, name, Float(InitialScale), targets)
             ELSE /\ has_peft_config' = has_peft_config
                  /\ peft_config' = config1
                  /\ lora_A' = A1
                  /\ lora_B' = B1
                  /\ scaling' = S1
          /\ call' = [NoCall EXCEPT !.op = "load_lora", !.err = err, !.name = name,
                                    !.deleted = IF exists THEN 1 ELSE 0]

LoadOutcomes == {"none", "FetchError", "LoadError"}

\* the choices that make a difference to a call: what delete_adapters leaves
\* behind when it is called, the modules load_lora_adapter reaches when it
\* succeeds
KeepChoices(w, outcome) ==
    IF outcome # "FetchError" /\ ~HasEmptyName(w) /\ AlreadyExists(adapter_name(w))
    THEN SUBSET LoraModules ELSE {{}}

TargetChoices(outcome) == IF outcome = "none" THEN SUBSET LoraModules ELSE {{}}

LoadLora ==
    \E w \in FileNames, outcome \in LoadOutcomes :
        \E keep \in KeepChoices(w, outcome), targets \in TargetChoices(outcome) :
            load_lora(w, outcome, keep, targets)

----------------------------------------------------------------------------
(* unload_all_loras *)

\* a faulty variant: a dict is left as it is
ClearSkipped(attr) == attr

\* lines 77-85: attr.clear() where the module has the attribute and it is a dict
ClearIfDict(attr) ==
    IF HasAttr(attr) /\ IsDict(attr) THEN [attr EXCEPT !.map = EmptyMap] ELSE attr

\* a faulty variant: an empty registry is unloaded like any other
HasAdaptersAlways == TRUE

\* line 62: hasattr(transformer, 'peft_config') and transformer.peft_config
HasAdapters == has_peft_config /\ DOMAIN peft_config # {}

\* a faulty variant: only one of the adapters is deleted
FirstAdapterName == {CHOOSE n \in DOMAIN peft_config : TRUE}

\* line 64: list(transformer.peft_config.keys())
AdapterNamesToDelete == DOMAIN peft_config

\* unload_all_loras(transformer); keep as in load_lora
unload_all_loras(keep) ==
    LET after == call.op = "load_lora" /\ call.err = "none"
    IN
    IF HasAdapters
    THEN LET names == AdapterNamesToDelete
         IN  /\ has_peft_config' = has_peft_config
             /\ peft_config' = MapWithout(peft_config, names)
             /\ active_adapter' =
                    IF active_adapter.attr THEN ActiveNone ELSE active_adapter
             /\ lora_A' = [m \in Modules |-> ClearIfDict(DeleteFrom(lora_A, names, keep)[m])]
             /\ lora_B' = [m \in Modules |-> ClearIfDict(DeleteFrom(lora_B, names, keep)[m])]
             /\ scaling' = [m \in Modules |-> ClearIfDict(DeleteFrom(scaling, names, keep)[m])]
             /\ call' = [NoCall EXCEPT !.op = "unload_all_loras", !.deleted = Cardinality(names),
                                       !.after_load = after]
    ELSE /\ call' = [NoCall EXCEPT !.op = "unload_all_loras", !.after_load = after]
         /\ UNCHANGED <<has_peft_config, peft_config, active_adapter, lora_A, lora_B, scaling>>

UnloadAllLoras == \E keep \in SUBSET LoraModules : unload_all_loras(keep)

----------------------------------------------------------------------------
(* apply_lora_scaling *)

\* the adapter names of the weight files
AdapterNames == {adapter_name(w) : w \in FileNames}

\* the strengths applied
Strengths == {5}

\* lines 118-123 and 126-131: the new value is a tensor on the old value's
\* device when the old value is a tensor, and the plain number otherwise
NewScale(old, lora_strength) ==
    IF IsTensor(old) THEN Tensor(lora_strength, old.rep) ELSE Float(lora_strength)

\* a faulty variant: the entry is written whether or not the adapter is in the dict
ScaleModuleUngated(attr, name, lora_strength) ==
    IF ~HasAttr(attr) THEN attr
    ELSE IF IsDict(attr)
         THEN [attr EXCEPT !.map = MapPut(@, name, Float(lora_strength))]
         ELSE [attr EXCEPT !.val = NewScale(@, lora_strength)]

\* a faulty variant: every entry of a dict is written, whatever its adapter
ScaleModuleEveryEntry(attr, name, lora_strength) ==
    IF ~HasAttr(attr) THEN attr
    ELSE IF IsDict(attr)
         THEN [attr EXCEPT !.map = [k \in DOMAIN @ |-> NewScale(@[k], lora_strength)]]
         ELSE [attr EXCEPT !.val = NewScale(@, lora_strength)]

\* lines 114-131: one module's scaling after the call
ScaleModule(attr, name, lora_strength) ==
    IF ~HasAttr(attr) THEN attr
    ELSE IF IsDict(attr)
         THEN IF name \in DOMAIN attr.map
              THEN [attr EXCEPT !.map = MapPut(@, name, NewScale(@[name], lora_strength))]
              ELSE attr
         ELSE [attr EXCEPT !.val = NewScale(@, lora_strength)]

\* apply_lora_scaling(transformer, name, lora_strength); call.written is the
\* set of modules whose scaling was assigned
apply_lora_scaling(name, lora_strength) ==
    /\ scaling' = [m \in Modules |-> ScaleModule(scaling[m], name, lora_strength)]
    /\ call' = [NoCall EXCEPT !.op = "apply_lora_scaling", !.name = name,
                   !.written = {m \in Modules :
                                   \/ HasAttr(scaling[m]) /\ ~IsDict(scaling[m])
                                   \/ IsDict(scaling[m]) /\ name \in DOMAIN scaling[m].map}]
    /\ UNCHANGED <<has_peft_config, peft_config, active_adapter, lora_A, lora_B>>

ApplyLoraScaling ==
    \E name \in AdapterNames, lora_strength \in Strengths :
        apply_lora_scaling(name, lora_strength)

----------------------------------------------------------------------------
(* set_adapters *)

\* one weight: None, a number, or a dict of per-block numbers (all v)
None == [t |-> "none", v |-> 0]

Num(n) == [t |-> "num", v |-> n]

Dict(n) == [t |-> "dict", v |-> n]

\* line 154: the weight that stands for None (1.0)
DefaultWeight == 1

RECURSIVE ListsUpTo(_, _)
ListsUpTo(S, n) ==
    IF n = 0 THEN {<<>>}
    ELSE LET shorter == ListsUpTo(S, n - 1)
         IN  shorter \cup {Append(l, x) : l \in {k \in shorter : Len(k) = n - 1}, x \in S}

\* the adapter_names argument: a single string (str is TRUE and v holds it
\* alone) or a list of strings
NameArgs(ids) ==
    {[str |-> TRUE, v |-> <<n>>] : n \in ids}
        \cup {[str |-> FALSE, v |-> l] : l \in ListsUpTo(ids, MaxAdapters)}

\* the weights argument: a single value (list is FALSE and v holds it alone)
\* or a list of values
WeightArgs(atoms) ==
    {[list |-> FALSE, v |-> <<a>>] : a \in atoms}
        \cup {[list |-> TRUE, v |-> l] : l \in ListsUpTo(atoms, MaxAdapters)}

\* line 140
NameList(adapter_names) ==
    IF adapter_names.str THEN <<adapter_names.v[1]>> ELSE adapter_names.v

\* lines 144-145
Broadcast(weights, n) ==
    IF ~weights.list THEN [i \in 1..n |-> weights.v[1]] ELSE weights.v

\* a faulty variant: a weight that is falsy (None or 0) becomes the default
DefaultsForFalsy(weights) ==
    [i \in 1..Len(weights) |->
        IF weights[i] = None \/ weights[i] = Num(0) THEN Num(DefaultWeight) ELSE weights[i]]

\* line 154
Defaults(weights) ==
    [i \in 1..Len(weights) |-> IF weights[i] = None THEN Num(DefaultWeight) ELSE weights[i]]

\* a faulty variant: a list of weights is cut or padded to the names instead of refused
LengthMismatchNever(names, weights) == FALSE

\* line 147
LengthMismatch(names, weights) == Len(names) # Len(weights)

\* _SET_ADAPTER_SCALE_FN_MAPPING["HunyuanVideoTransformer3DModel"]: a dict of
\* per-block weights becomes the structure the model expects, a number stays
scale_expansion_fn(weights) ==
    [i \in 1..Len(weights) |->
        IF weights[i].t = "dict" THEN [t |-> "expanded", v |-> weights[i].v] ELSE weights[i]]

\* the weights a list of names is given when the lists differ in length
\* (zip stops at the shorter)
ZipLen(names, weights) == IF Len(names) < Len(weights) THEN Len(names) ELSE Len(weights)

\* set_weights_and_activate_adapters: one module's scaling after set_scale of
\* every (name, weight) pair in turn; set_scale skips a name the module
\* does not have
RECURSIVE SetScales(_, _, _, _)
SetScales(attr, names, weights, i) ==
    IF i > ZipLen(names, weights) THEN attr
    ELSE SetScales(
            IF names[i] \in DOMAIN attr.map
            THEN [attr EXCEPT !.map = MapPut(@, names[i], Float(weights[i].v))]
            ELSE attr,
            names, weights, i + 1)

\* set_adapters(transformer, adapter_names, weights)
set_adapters(adapter_names, weights) ==
    LET names == NameList(adapter_names)
        w1    == Broadcast(weights, Len(names))
    IN  IF LengthMismatch(names, w1)
        THEN /\ call' = [Failed("set_adapters", "ValueError", <<>>) EXCEPT
                                !.given = [names |-> adapter_names, weights |-> weights]]
             /\ UNCHANGED <<has_peft_config, peft_config, active_adapter,
                            lora_A, lora_B, scaling>>
        ELSE LET w2 == Defaults(w1)
                 w3 == scale_expansion_fn(w2)
             IN  /\ scaling' = [m \in Modules |->
                                   IF m \in LoraModules
                                   THEN SetScales(scaling[m], names, w3, 1)
                                   ELSE scaling[m]]
                 /\ call' = [NoCall EXCEPT
                                !.op = "set_adapters",
                                !.given = [names |-> adapter_names, weights |-> weights],
                                !.expanded = [called |-> TRUE, weights |-> w2],
                                !.activated = [called |-> TRUE, names |-> names,
                                               weights |-> w3]]
                 /\ UNCHANGED <<has_peft_config, peft_config, active_adapter, lora_A, lora_B>>

\* the adapter names of the weight files, in a list
RECURSIVE ListOf(_)
ListOf(S) == IF S = {} THEN <<>> ELSE LET x == CHOOSE y \in S : TRUE IN <<x>> \o ListOf(S \ {x})

\* what the main specification calls set_adapters with: one adapter name or
\* the list of them all; no weight, one weight, or a list of one weight
SomeNameArgs ==
    {[str |-> TRUE, v |-> <<n>>] : n \in AdapterNames}
        \cup {[str |-> FALSE, v |-> ListOf(AdapterNames)]}

SomeWeightArgs ==
    {[list |-> FALSE, v |-> <<None>>], [list |-> FALSE, v |-> <<Num(5)>>],
     [list |-> TRUE, v |-> <<Num(5)>>]}

SetAdapters ==
    \E adapter_names \in SomeNameArgs, weights \in SomeWeightArgs :
        set_adapters(adapter_names, weights)

----------------------------------------------------------------------------
(* Specifications *)

\* any sequence of the four operations on one transformer
Next == LoadLora \/ UnloadAllLoras \/ ApplyLoraScaling \/ SetAdapters

Spec == Init /\ [][Next]_vars

\* the first load into a transformer, of every weight file name in Names
LoadAnyName ==
    /\ ~has_peft_config
    /\ \E w \in Names, targets \in SUBSET LoraModules : load_lora(w, "none", {}, targets)

NextNames == LoadAnyName

SpecNames == Init /\ [][NextNames]_vars

\* every weight set_adapters takes: None, numbers (0 among them) and a dict
AllWeights == {None, Num(0), Num(DefaultWeight), Num(5), Dict(5)}

SetAdaptersAny ==
    /\ call.op = "none"
    /\ \E adapter_names \in NameArgs(AdapterNames), weights \in WeightArgs(AllWeights) :
           set_adapters(adapter_names, weights)

NextWeights == SetAdaptersAny

\* one call of set_adapters, with every shape of its arguments, on a
\* transformer without adapters
SpecWeights == Init /\ [][NextWeights]_vars

----------------------------------------------------------------------------
(* Properties *)

ModelVars == <<has_peft_config, peft_config, active_adapter, lora_A, lora_B, scaling>>

Registered(name) == has_peft_config /\ name \in DOMAIN peft_config

\* the per-adapter containers of a module that hold an entry
Residue(attr) == attr.t \in {"dict", "other"} /\ DOMAIN attr.map # {}

\* C1: a load_lora of a file whose adapter is already registered is not
\* refused for the name being in use: it deletes the adapter that is there
\* (and deletes nothing when there is none), and when the calls it hands on
\* succeed the adapter is registered once under the name derived from the
\* file, loaded from that file.
C1_ReloadReplaces ==
    [][call'.op = "load_lora" =>
          /\ call'.err # "AdapterInUse"
          /\ call'.err \in {"none", "LoadError"} =>
                (call'.deleted = 1 <=> (has_peft_config /\ call'.name \in DOMAIN peft_config))
          /\ call'.err = "none" =>
                /\ has_peft_config'
                /\ Cardinality({n \in DOMAIN peft_config' : n = call'.name}) = 1
                /\ adapter_name(peft_config'[call'.name]) = call'.name
                /\ DOMAIN peft_config' = DOMAIN peft_config \cup {call'.name}]_vars

\* a load that replaced an adapter while another adapter was registered
C1_Witness ==
    /\ call.op = "load_lora" /\ call.err = "none" /\ call.deleted = 1
    /\ Cardinality(DOMAIN peft_config) = 2

\* C2: unload_all_loras right after a load_lora that returned leaves
\* peft_config empty, whatever else was registered.
C2_LoadThenUnloadEmpty ==
    (call.op = "unload_all_loras" /\ call.after_load) =>
        (has_peft_config /\ DOMAIN peft_config = {})

\* an unload right after a load, with two adapters to remove
C2_Witness ==
    call.op = "unload_all_loras" /\ call.after_load /\ call.deleted = 2

C4_Original ==
    [][call'.op = "apply_lora_scaling" =>
          \A m \in Modules :
              ~(IsDict(scaling[m]) /\ call'.name \in DOMAIN scaling[m].map)
                  => scaling'[m] = scaling[m]]_vars

\* C4 as amended: apply_lora_scaling leaves untouched every module that has
\* no scaling and every module whose scaling is a dict without the adapter
\* name as a key.
C4_OnlyKeyedDictsChange ==
    [][call'.op = "apply_lora_scaling" =>
          \A m \in Modules :
              (~HasAttr(scaling[m])
                  \/ (IsDict(scaling[m]) /\ call'.name \notin DOMAIN scaling[m].map))
                  => scaling'[m] = scaling[m]]_vars

\* a scaling applied to an adapter that one module has, while another module
\* holds only a different adapter, at its initial scale
C4_Witness ==
    /\ call.op = "apply_lora_scaling"
    /\ \E m \in Modules :
          /\ IsDict(scaling[m]) /\ call.name \in DOMAIN scaling[m].map
          /\ scaling[m].map[call.name] = Float(5)
    /\ \E m \in Modules :
          /\ IsDict(scaling[m]) /\ call.name \notin DOMAIN scaling[m].map
          /\ \E k \in DOMAIN scaling[m].map : scaling[m].map[k] = Float(InitialScale)

\* C5: set_adapters with a list of weights whose length is not the number of
\* adapter names fails with ValueError, calls neither the scale expansion nor
\* set_weights_and_activate_adapters, and leaves the transformer as it was.
C5_MismatchRefused ==
    [][(/\ call'.op = "set_adapters"
        /\ call'.given.weights.list
        /\ Len(call'.given.weights.v) #
               (IF call'.given.names.str THEN 1 ELSE Len(call'.given.names.v)))
          => /\ call'.err = "ValueError"
             /\ ~call'.expanded.called
             /\ ~call'.activated.called
             /\ UNCHANGED ModelVars]_vars

\* a refused set_adapters on a transformer that holds an adapter with a scale
C5_Witness ==
    /\ call.op = "set_adapters" /\ call.err = "ValueError"
    /\ \E m \in Modules : IsDict(scaling[m]) /\ Residue(scaling[m])
    /\ DOMAIN peft_config # {}

StartsWithDot(s) == Len(s) >= 5 /\ SubSeq(s, 1, 5) = <<"_", "D", "O", "T", "_">>

\* a string with every "_DOT_" turned back into "."
RECURSIVE Unescaped(_)
Unescaped(s) ==
    IF s = <<>> THEN <<>>
    ELSE IF StartsWithDot(s) THEN <<".">> \o Unescaped(SubSeq(s, 6, Len(s)))
    ELSE <<Head(s)>> \o Unescaped(Tail(s))

\* a file name without its extension: what precedes the last dot, when that
\* dot is neither the first nor the last character
WithoutExtension(w) ==
    LET inner == {p \in 2..(Len(w) - 1) : w[p] = "." /\ \A q \in (p + 1)..Len(w) : w[q] # "."}
    IN  IF inner = {} THEN w ELSE SubSeq(w, 1, (CHOOSE p \in inner : TRUE) - 1)

\* C7: the name an adapter is registered under has no '.', and is the file
\* name without its extension with every '.' written as '_DOT_';
\* 'my.lora.safetensors' is registered as 'my_DOT_lora'.
C7_NameHasNoDots ==
    has_peft_config =>
        \A n \in DOMAIN peft_config :
            LET w == peft_config[n]
            IN  /\ \A i \in 1..Len(n) : n[i] # "."
                /\ Unescaped(n) = WithoutExtension(w)
                /\ Len(n) = Len(WithoutExtension(w))
                       + 4 * Cardinality({i \in 1..Len(WithoutExtension(w)) :
                                             WithoutExtension(w)[i] = "."})
                /\ w = ExampleName => n = ExampleAdapter

\* 'my.lora.safetensors' loaded and registered
C7_Witness ==
    /\ call.op = "load_lora" /\ call.err = "none"
    /\ ExampleAdapter \in DOMAIN peft_config
    /\ peft_config[ExampleAdapter] = ExampleName

\* C8 as stated: apply_lora_scaling writes no scale for, and set_adapters
\* hands to set_weights_and_activate_adapters no, adapter name that is not
\* in peft_config.
C8_OnlyRegisteredTargeted ==
    /\ (call.op = "set_adapters" /\ call.activated.called) =>
          \A i \in 1..Len(call.activated.names) : Registered(call.activated.names[i])
    /\ (call.op = "apply_lora_scaling" /\ call.written # {}) => Registered(call.name)

\* C9: unload_all_loras on a transformer without peft_config, or with an
\* empty one, raises nothing and leaves peft_config, active_adapter and every
\* module's lora_A, lora_B and scaling as they were.
C9_UnloadWithoutAdaptersNoOp ==
    [][(call'.op = "unload_all_loras" /\ ~(has_peft_config /\ DOMAIN peft_config # {}))
          => (call'.err = "none" /\ UNCHANGED ModelVars)]_vars

\* an unload that found no adapter in peft_config, on a transformer whose
\* dicts still hold entries and whose active_adapter is as built
C9_Witness ==
    /\ call.op = "unload_all_loras" /\ call.deleted = 0
    /\ has_peft_config
    /\ \E m \in Modules : IsDict(lora_A[m]) /\ Residue(lora_A[m])
    /\ \E m \in Modules : IsDict(scaling[m]) /\ Residue(scaling[m])
    /\ active_adapter = ActiveDefault

\* C10: apply_lora_scaling changes no set of adapter names: peft_config,
\* active_adapter, lora_A and lora_B are as before, and every scaling is of
\* the kind it was, with the keys it had.
C10_ScalingKeepsNames ==
    [][call'.op = "apply_lora_scaling" =>
          /\ UNCHANGED <<has_peft_config, peft_config, active_adapter, lora_A, lora_B>>
          /\ \A m \in Modules :
                /\ scaling'[m].t = scaling[m].t
                /\ DOMAIN scaling'[m].map = DOMAIN scaling[m].map]_vars

\* a scaling applied to an adapter that one module has and another lacks
C10_Witness ==
    /\ call.op = "apply_lora_scaling"
    /\ \E m \in Modules : IsDict(scaling[m]) /\ call.name \in DOMAIN scaling[m].map
    /\ \E m \in Modules : IsDict(scaling[m]) /\ call.name \notin DOMAIN scaling[m].map
    /\ ~Registered(call.name)

====
